---- MODULE Spec2Model ----
(* conq.Queue: a mutex-guarded FIFO queue stored as a slice of slices,     *)
(* with a non-blocking Dequeue and a polling DequeueBlocking.               *)
EXTENDS Integers, Sequences, FiniteSets, TLC

\* ---------------------------------------------------------------- bounds
NumThreads == 2
NumProducers == 3
MaxItems == 3
MaxCap == 2

Threads == 1..NumThreads
NoThread == 0
Items == 1..MaxItems
\* the nil interface{} value; every enqueued item is a positive integer
Nil == 0
Durations == {0, 1}

VARIABLES
    q,        \* the Queue struct: Capacity, items, len, rx, ry, w
    mut,      \* q.mut: the thread holding the mutex, NoThread when unlocked
    pc,       \* per thread: "idle", "panic", or the source line it is about to run
    item,     \* per thread: argument of the Enqueue call in progress
    timeout,  \* per thread: arguments of the DequeueBlocking call in progress
    interval,
    timer,    \* per thread: local `timer` of DequeueBlocking: "nil", "running", "fired"
    ret,      \* per thread: operation and value of the last completed call
    enq,      \* history: items in the order their Enqueue ran its critical section
    deq,      \* history: items in the order successful dequeues returned them
              \* (a prefix common to both histories is dropped from both)
    twin,     \* a second Queue with its own Capacity and the result of its last call
    actual    \* the results a consumer has collected (`actual` of the tests)

vars == <<q, mut, pc, item, timeout, interval, timer, ret, enq, deq, twin, actual>>

\* ------------------------------------------------------- slices (Go built-ins)
\* a []interface{}: its elements and the capacity of its backing array
Slice(e, c) == [e |-> e, cap |-> c]

\* append(s, x) on a []interface{}: in place while len < cap, else the backing
\* array is reallocated with doubled capacity
append(s, x) ==
    Slice(Append(s.e, x), IF Len(s.e) < s.cap THEN s.cap ELSE 2 * s.cap)

\* s[:0]: length zero, same backing array
Truncate(s) == Slice(<<>>, s.cap)

\* q.items[i] with Go's zero-based index
At(s, i) == s[i + 1]

\* ------------------------------------------------------------ the Queue
\* &conq.Queue{Capacity: c}
NewQueue(c) ==
    [Capacity |-> c, items |-> <<>>, len |-> 0, rx |-> 0, ry |-> 0, w |-> 0]

\* mutant of newSlice: make([]interface{}, capacity) instead of
\* make([]interface{}, 1, capacity)
newSliceLen(qu, e) ==
    LET capacity == IF qu.Capacity = 0 THEN 1 ELSE qu.Capacity
    IN  Slice([i \in 1..capacity |-> IF i = 1 THEN e ELSE Nil], capacity)

newSlice(qu, e) ==
    LET capacity == IF qu.Capacity = 0 THEN 1 ELSE qu.Capacity
    IN  Slice(<<e>>, capacity)

\* does the append branch of Enqueue index q.items out of range
EnqueuePanics(qu) ==
    /\ ~(Len(qu.items) = 0 \/ Len(qu.items) = qu.w)
    /\ ~(qu.w < Len(qu.items))

\* mutant of EnqueueCS: line 86 (q.len += 1) left out
EnqueueCSNoLen(qu, e) ==
    IF Len(qu.items) = 0 \/ Len(qu.items) = qu.w
    THEN [qu EXCEPT !.items = Append(qu.items, newSlice(qu, e))]
    ELSE [qu EXCEPT !.items[qu.w + 1] = append(At(qu.items, qu.w), e)]

\* the critical section of Enqueue (lines 80-86)
EnqueueCS(qu, e) ==
    IF Len(qu.items) = 0 \/ Len(qu.items) = qu.w
    THEN [qu EXCEPT !.items = Append(qu.items, newSlice(qu, e)),
                    !.len = qu.len + 1]
    ELSE [qu EXCEPT !.items[qu.w + 1] = append(At(qu.items, qu.w), e),
                    !.len = qu.len + 1]

\* does dequeue index q.items or the read chunk out of range
dequeuePanics(qu) ==
    /\ Len(qu.items) # 0
    /\ \/ ~(qu.ry < Len(qu.items))
       \/ /\ Len(At(qu.items, qu.ry).e) # 0
          /\ ~(qu.rx < Len(At(qu.items, qu.ry).e))

\* mutant of Redirect: lines 178-184 left out, the write index stays
RedirectNever(qu) == qu.w

\* mutant of Redirect: lines 179-180 left out, chunk 0 is never written again
RedirectNext(qu) == IF qu.w = qu.ry THEN qu.ry + 1 ELSE qu.w

\* mutant of Redirect: the test q.w == q.ry of line 178 left out
RedirectAlways(qu) == IF qu.w > 0 THEN 0 ELSE qu.ry + 1

\* lines 178-184: the write index after a dequeue that leaves the read chunk
\* mid-drain
Redirect(qu) ==
    IF qu.w = qu.ry
    THEN IF qu.w > 0 THEN 0 ELSE qu.ry + 1
    ELSE qu.w

\* mutant of Drained: line 168 (the truncation of the read chunk) left out
DrainedNoTruncate(qu) ==
    IF qu.len = 0
    THEN [qu EXCEPT !.items = <<>>, !.rx = 0, !.ry = 0, !.w = 0]
    ELSE [qu EXCEPT !.rx = 0, !.ry = qu.w]

\* mutant of Drained: line 173 resets q.w only, q.ry keeps its value
DrainedResetKeepsRy(qu) ==
    IF qu.len = 0
    THEN [qu EXCEPT !.items = <<>>, !.rx = 0, !.w = 0]
    ELSE [qu EXCEPT !.items[qu.ry + 1] = Truncate(At(qu.items, qu.ry)),
                    !.rx = 0, !.ry = qu.w]

\* mutant of Drained: the reset of lines 171-173 left out
DrainedNoReset(qu) ==
    [qu EXCEPT !.items[qu.ry + 1] = Truncate(At(qu.items, qu.ry)),
               !.rx = 0, !.ry = qu.w]

\* mutant of Drained: line 175 (q.ry = q.w) left out
DrainedKeepRy(qu) ==
    IF qu.len = 0
    THEN [qu EXCEPT !.items = <<>>, !.rx = 0, !.ry = 0, !.w = 0]
    ELSE [qu EXCEPT !.items[qu.ry + 1] = Truncate(At(qu.items, qu.ry)),
                    !.rx = 0]

\* lines 168-176: the read chunk has given its last item
Drained(qu) ==
    IF qu.len = 0
    THEN [qu EXCEPT !.items = <<>>, !.rx = 0, !.ry = 0, !.w = 0]
    ELSE [qu EXCEPT !.items[qu.ry + 1] = Truncate(At(qu.items, qu.ry)),
                    !.rx = 0, !.ry = qu.w]

\* mutant of MidDrain: line 186 (q.rx += 1) left out
MidDrainNoAdvance(qu) ==
    [qu EXCEPT !.w = Redirect(qu)]

\* lines 178-186: the read chunk still holds items
MidDrain(qu) ==
    [qu EXCEPT !.w = Redirect(qu), !.rx = qu.rx + 1]

\* mutant of dequeue: line 165 (q.len -= 1) moved above the test of line 160
dequeueEarlyDecrement(qu) ==
    LET qu1 == [qu EXCEPT !.len = qu.len - 1]
    IN  IF Len(qu.items) = 0 \/ Len(At(qu.items, qu.ry).e) = 0
        THEN [q |-> qu1, val |-> Nil, ok |-> FALSE]
        ELSE [q |-> IF Len(At(qu.items, qu.ry).e) = qu.rx + 1
                    THEN Drained(qu1)
                    ELSE MidDrain(qu1),
              val |-> At(At(qu.items, qu.ry).e, qu.rx), ok |-> TRUE]

\* q.dequeue(): the queue afterwards, the value and the ok flag
dequeue(qu) ==
    IF Len(qu.items) = 0 \/ Len(At(qu.items, qu.ry).e) = 0
    THEN [q |-> qu, val |-> Nil, ok |-> FALSE]
    ELSE
      LET val == At(At(qu.items, qu.ry).e, qu.rx)
          qu1 == [qu EXCEPT !.len = qu.len - 1]
      IN  [q |-> IF Len(At(qu.items, qu.ry).e) = qu.rx + 1
                 THEN Drained(qu1)
                 ELSE MidDrain(qu1),
           val |-> val, ok |-> TRUE]

\* ------------------------------------------------------------ the mutex
\* q.mut.Lock(): blocks until the mutex is free
Lock(t) == mut = NoThread /\ mut' = t

\* q.mut.Unlock()
Unlock(t) == mut' = NoThread

\* ------------------------------------------------------------ helpers
Goto(t, l) == pc' = [pc EXCEPT ![t] = l]
Result(t, op, v) == ret' = [ret EXCEPT ![t] = [op |-> op, val |-> v]]
NoRet == [op |-> "none", val |-> Nil]
Range(s) == {s[i] : i \in 1..Len(s)}
InFlight == {item[t] : t \in DOMAIN item} \ {Nil}
Unused == Items \ (Range(enq) \cup InFlight)
Min(S) == CHOOSE x \in S : \A y \in S : x <= y
\* the histories after a dequeue returned v: <<enq, deq>>
Dequeued(v) ==
    IF deq = <<>> /\ enq # <<>> /\ Head(enq) = v
    THEN <<Tail(enq), deq>>
    ELSE <<enq, Append(deq, v)>>
\* callers enqueue distinct items: the next one not yet handed to Enqueue
NextItem == IF Unused = {} THEN Nil ELSE Min(Unused)

\* ------------------------------------------------------------ Enqueue
CallEnqueue(t, e) ==
    /\ pc[t] = "idle"
    /\ e \in Unused
    /\ item' = [item EXCEPT ![t] = e]
    /\ ret' = [ret EXCEPT ![t] = NoRet]
    /\ Goto(t, "Enqueue78")
    /\ UNCHANGED <<q, mut, timeout, interval, timer, enq, deq, twin, actual>>

EnqueueLock(t) ==
    /\ pc[t] = "Enqueue78"
    /\ Lock(t)
    /\ Goto(t, "Enqueue80")
    /\ UNCHANGED <<q, item, timeout, interval, timer, ret, enq, deq, twin, actual>>

EnqueueBody(t) ==
    /\ pc[t] = "Enqueue80"
    /\ IF EnqueuePanics(q)
       THEN /\ Goto(t, "panic")
            /\ UNCHANGED <<q, mut, item, ret, enq>>
       ELSE /\ q' = EnqueueCS(q, item[t])
            /\ enq' = Append(enq, item[t])
            /\ Unlock(t)
            /\ item' = [item EXCEPT ![t] = Nil]
            /\ Result(t, "Enqueue", Nil)
            /\ Goto(t, "idle")
    /\ UNCHANGED <<timeout, interval, timer, deq, twin, actual>>

\* ------------------------------------------------------------ Dequeue
CallDequeue(t) ==
    /\ pc[t] = "idle"
    /\ ret' = [ret EXCEPT ![t] = NoRet]
    /\ Goto(t, "Dequeue96")
    /\ UNCHANGED <<q, mut, item, timeout, interval, timer, enq, deq, twin, actual>>

DequeueLock(t) ==
    /\ pc[t] = "Dequeue96"
    /\ Lock(t)
    /\ Goto(t, "Dequeue99")
    /\ UNCHANGED <<q, item, timeout, interval, timer, ret, enq, deq, twin, actual>>

\* lines 99-103 and the deferred Unlock
DequeueBody(t) ==
    /\ pc[t] = "Dequeue99"
    /\ IF dequeuePanics(q)
       THEN /\ Unlock(t)
            /\ Goto(t, "panic")
            /\ UNCHANGED <<q, ret, enq, deq>>
       ELSE LET r == dequeue(q)
            IN  /\ q' = r.q
                /\ enq' = (IF r.ok THEN Dequeued(r.val) ELSE <<enq, deq>>)[1]
                /\ deq' = (IF r.ok THEN Dequeued(r.val) ELSE <<enq, deq>>)[2]
                /\ Unlock(t)
                /\ Result(t, "Dequeue", IF r.ok THEN r.val ELSE Nil)
                /\ Goto(t, "idle")
    /\ UNCHANGED <<item, timeout, interval, timer, twin, actual>>

\* ------------------------------------------------------------ Len
CallLen(t) ==
    /\ pc[t] = "idle"
    /\ ret' = [ret EXCEPT ![t] = NoRet]
    /\ Goto(t, "Len153")
    /\ UNCHANGED <<q, mut, item, timeout, interval, timer, enq, deq, twin, actual>>

LenLock(t) ==
    /\ pc[t] = "Len153"
    /\ Lock(t)
    /\ Goto(t, "Len156")
    /\ UNCHANGED <<q, item, timeout, interval, timer, ret, enq, deq, twin, actual>>

LenBody(t) ==
    /\ pc[t] = "Len156"
    /\ Result(t, "Len", q.len)
    /\ Unlock(t)
    /\ Goto(t, "idle")
    /\ UNCHANGED <<q, item, timeout, interval, timer, enq, deq, twin, actual>>

\* ------------------------------------------------------------ DequeueBlocking
CallDequeueBlocking(t, to, iv) ==
    /\ pc[t] = "idle"
    /\ timeout' = [timeout EXCEPT ![t] = to]
    /\ interval' = [interval EXCEPT ![t] = iv]
    /\ ret' = [ret EXCEPT ![t] = NoRet]
    /\ Goto(t, "DB116")
    /\ UNCHANGED <<q, mut, item, timer, enq, deq, twin, actual>>

\* line 116
DBLock(t) ==
    /\ pc[t] = "DB116"
    /\ Lock(t)
    /\ Goto(t, "DB118")
    /\ UNCHANGED <<q, item, timeout, interval, timer, ret, enq, deq, twin, actual>>

\* mutant of DBTimer: the test timeout > 0 of line 119 left out
DBTimerAlways(t) ==
    /\ pc[t] = "DB118"
    /\ timer' = [timer EXCEPT ![t] = "running"]
    /\ Goto(t, "DB124")
    /\ UNCHANGED <<q, mut, item, timeout, interval, ret, enq, deq, twin, actual>>

\* lines 118-122: the deadline timer, only when timeout > 0
DBTimer(t) ==
    /\ pc[t] = "DB118"
    /\ timer' = [timer EXCEPT ![t] = IF timeout[t] > 0 THEN "running" ELSE "nil"]
    /\ Goto(t, "DB124")
    /\ UNCHANGED <<q, mut, item, timeout, interval, ret, enq, deq, twin, actual>>

\* mutant of DBTest: the loop of line 124 is never entered
DBTestNoLoop(t) ==
    /\ pc[t] = "DB124"
    /\ UNCHANGED mut /\ Goto(t, "DB143")
    /\ UNCHANGED <<q, item, timeout, interval, timer, ret, enq, deq, twin, actual>>

\* mutant of DBTest: the loop test of line 124 is q.len <= 1
DBTestLoose(t) ==
    /\ pc[t] = "DB124"
    /\ IF q.len <= 1
       THEN Unlock(t) /\ Goto(t, "DB127")
       ELSE UNCHANGED mut /\ Goto(t, "DB143")
    /\ UNCHANGED <<q, item, timeout, interval, timer, ret, enq, deq, twin, actual>>

\* mutant of DBTest: line 125 (q.mut.Unlock()) left out
DBTestNoUnlock(t) ==
    /\ pc[t] = "DB124"
    /\ UNCHANGED mut
    /\ Goto(t, IF q.len = 0 THEN "DB127" ELSE "DB143")
    /\ UNCHANGED <<q, item, timeout, interval, timer, ret, enq, deq, twin, actual>>

\* line 124, and line 125 when the loop is entered
DBTest(t) ==
    /\ pc[t] = "DB124"
    /\ IF q.len = 0
       THEN Unlock(t) /\ Goto(t, "DB127")
       ELSE UNCHANGED mut /\ Goto(t, "DB143")
    /\ UNCHANGED <<q, item, timeout, interval, timer, ret, enq, deq, twin, actual>>

\* the end of a DequeueBlocking call: deferred timer.Stop(), locals dropped
DBReturn(t, v) ==
    /\ timer' = [timer EXCEPT ![t] = "nil"]
    /\ timeout' = [timeout EXCEPT ![t] = 0]
    /\ interval' = [interval EXCEPT ![t] = 0]
    /\ Result(t, "DequeueBlocking", v)
    /\ Goto(t, "idle")

\* mutant of DBSelect: returns nil as soon as a timer exists, without
\* receiving from timer.C
DBSelectEarly(t) ==
    /\ pc[t] = "DB127"
    /\ IF timer[t] # "nil"
       THEN DBReturn(t, Nil)
       ELSE /\ Goto(t, IF interval[t] > 0 THEN "DB137" ELSE "DB140")
            /\ UNCHANGED <<timeout, interval, timer, ret>>
    /\ UNCHANGED <<q, mut, item, enq, deq, twin, actual>>

\* lines 127-134: the non-blocking receive from timer.C
DBSelect(t) ==
    /\ pc[t] = "DB127"
    /\ IF timer[t] = "fired"
       THEN DBReturn(t, Nil)
       ELSE /\ Goto(t, IF interval[t] > 0 THEN "DB137" ELSE "DB140")
            /\ UNCHANGED <<timeout, interval, timer, ret>>
    /\ UNCHANGED <<q, mut, item, enq, deq, twin, actual>>

\* line 137: time.Sleep(interval) returns
DBSleep(t) ==
    /\ pc[t] = "DB137"
    /\ Goto(t, "DB140")
    /\ UNCHANGED <<q, mut, item, timeout, interval, timer, ret, enq, deq, twin, actual>>

\* mutant of DBRelock: line 140 (q.mut.Lock()) left out
DBRelockSkipped(t) ==
    /\ pc[t] = "DB140"
    /\ Goto(t, "DB124")
    /\ UNCHANGED <<q, mut, item, timeout, interval, timer, ret, enq, deq, twin, actual>>

\* line 140
DBRelock(t) ==
    /\ pc[t] = "DB140"
    /\ Lock(t)
    /\ Goto(t, "DB124")
    /\ UNCHANGED <<q, item, timeout, interval, timer, ret, enq, deq, twin, actual>>

\* mutant of DBDequeue: line 144 (q.mut.Unlock()) left out
DBDequeueNoUnlock(t) ==
    /\ pc[t] = "DB143"
    /\ q' = dequeue(q).q
    /\ enq' = (IF dequeue(q).ok THEN Dequeued(dequeue(q).val) ELSE <<enq, deq>>)[1]
    /\ deq' = (IF dequeue(q).ok THEN Dequeued(dequeue(q).val) ELSE <<enq, deq>>)[2]
    /\ DBReturn(t, dequeue(q).val)
    /\ UNCHANGED <<mut, item, twin, actual>>

\* lines 143-146: the ok flag of dequeue is discarded
DBDequeue(t) ==
    /\ pc[t] = "DB143"
    /\ IF dequeuePanics(q)
       THEN /\ Goto(t, "panic")
            /\ UNCHANGED <<q, mut, timeout, interval, timer, ret, enq, deq>>
       ELSE LET r == dequeue(q)
            IN  /\ q' = r.q
                /\ enq' = (IF r.ok THEN Dequeued(r.val) ELSE <<enq, deq>>)[1]
                /\ deq' = (IF r.ok THEN Dequeued(r.val) ELSE <<enq, deq>>)[2]
                /\ Unlock(t)
                /\ DBReturn(t, r.val)
    /\ UNCHANGED <<item, twin, actual>>

\* the runtime fires the timer of a call in progress
TimerFire(t) ==
    /\ timer[t] = "running"
    /\ timer' = [timer EXCEPT ![t] = "fired"]
    /\ UNCHANGED <<q, mut, pc, item, timeout, interval, ret, enq, deq, twin, actual>>

\* ------------------------------------------------------------ specification
Init ==
    /\ q \in {NewQueue(c) : c \in 0..MaxCap}
    /\ twin = [q |-> q, ret |-> NoRet]
    /\ actual = <<>>
    /\ mut = NoThread
    /\ pc = [t \in Threads |-> "idle"]
    /\ item = [t \in Threads |-> Nil]
    /\ timeout = [t \in Threads |-> 0]
    /\ interval = [t \in Threads |-> 0]
    /\ timer = [t \in Threads |-> "nil"]
    /\ ret = [t \in Threads |-> NoRet]
    /\ enq = <<>>
    /\ deq = <<>>

Next ==
    \E t \in DOMAIN pc :
        \/ CallEnqueue(t, NextItem)
        \/ EnqueueLock(t)
        \/ EnqueueBody(t)
        \/ CallDequeue(t)
        \/ DequeueLock(t)
        \/ DequeueBody(t)
        \/ CallLen(t)
        \/ LenLock(t)
        \/ LenBody(t)
        \/ \E to \in Durations, iv \in Durations : CallDequeueBlocking(t, to, iv)
        \/ DBLock(t)
        \/ DBTimer(t)
        \/ DBTest(t)
        \/ DBSelect(t)
        \/ DBSleep(t)
        \/ DBRelock(t)
        \/ DBDequeue(t)
        \/ TimerFire(t)

Spec == Init /\ [][Next]_vars

\* ------------------------------------------------------------ no producer
\* The threads call everything but Enqueue: the queue never receives an item.
NextTimeout ==
    \E t \in Threads :
        \/ CallDequeue(t)
        \/ DequeueLock(t)
        \/ DequeueBody(t)
        \/ CallLen(t)
        \/ LenLock(t)
        \/ LenBody(t)
        \/ \E to \in Durations, iv \in Durations : CallDequeueBlocking(t, to, iv)
        \/ DBLock(t)
        \/ DBTimer(t)
        \/ DBTest(t)
        \/ DBSelect(t)
        \/ DBSleep(t)
        \/ DBRelock(t)
        \/ TimerFire(t)

\* the steps of a call in progress that wait for nothing, and its Lock calls
Runs(t) ==
    \/ DequeueBody(t)
    \/ LenBody(t)
    \/ DBTimer(t)
    \/ DBTest(t)
    \/ DBSelect(t)
    \/ DBSleep(t)
Locks(t) == DequeueLock(t) \/ LenLock(t) \/ DBLock(t) \/ DBRelock(t)

\* a call in progress keeps running, a thread waiting in Lock gets the mutex
\* although others keep taking and releasing it, and a started timer fires
FairTimeout ==
    \A t \in Threads :
        /\ WF_vars(Runs(t))
        /\ SF_vars(Locks(t))
        /\ WF_vars(TimerFire(t))

SpecTimeout == Init /\ [][NextTimeout]_vars /\ FairTimeout

\* ------------------------------------------------------------ whole calls
\* One caller, so every Lock succeeds at once and a call runs from its Lock to
\* its return without interleaving. The same calls go to q and to twin.q, two
\* queues that differ at most in Capacity.
Caller == 1
Return(op, v) == [op |-> op, val |-> v]

\* Enqueue(e) on qu: the queue afterwards and what the caller sees
EnqueueCall(qu, e) ==
    IF EnqueuePanics(qu)
    THEN [q |-> qu, ret |-> Return("panic", Nil)]
    ELSE [q |-> EnqueueCS(qu, e), ret |-> Return("Enqueue", Nil)]

DequeueCall(qu) ==
    IF dequeuePanics(qu)
    THEN [q |-> qu, ret |-> Return("panic", Nil)]
    ELSE [q |-> dequeue(qu).q,
          ret |-> Return("Dequeue", IF dequeue(qu).ok THEN dequeue(qu).val ELSE Nil)]

LenCall(qu) == [q |-> qu, ret |-> Return("Len", qu.len)]

SeqEnqueue(e) ==
    /\ pc[Caller] = "idle" /\ mut = NoThread
    /\ e \in Unused
    /\ q' = EnqueueCall(q, e).q
    /\ ret' = [ret EXCEPT ![Caller] = EnqueueCall(q, e).ret]
    /\ twin' = EnqueueCall(twin.q, e)
    /\ enq' = Append(enq, e)
    /\ UNCHANGED <<mut, pc, item, timeout, interval, timer, deq, actual>>

SeqDequeue ==
    /\ pc[Caller] = "idle" /\ mut = NoThread
    /\ q' = DequeueCall(q).q
    /\ ret' = [ret EXCEPT ![Caller] = DequeueCall(q).ret]
    /\ twin' = DequeueCall(twin.q)
    /\ enq' = (IF DequeueCall(q).ret.val # Nil
               THEN Dequeued(DequeueCall(q).ret.val) ELSE <<enq, deq>>)[1]
    /\ deq' = (IF DequeueCall(q).ret.val # Nil
               THEN Dequeued(DequeueCall(q).ret.val) ELSE <<enq, deq>>)[2]
    /\ UNCHANGED <<mut, pc, item, timeout, interval, timer, actual>>

SeqLen ==
    /\ pc[Caller] = "idle" /\ mut = NoThread
    /\ ret' = [ret EXCEPT ![Caller] = LenCall(q).ret]
    /\ twin' = LenCall(twin.q)
    /\ UNCHANGED <<q, mut, pc, item, timeout, interval, timer, enq, deq, actual>>

InitCapacity ==
    /\ q \in {NewQueue(c) : c \in 0..MaxCap}
    /\ twin \in {[q |-> NewQueue(c), ret |-> NoRet] : c \in 0..MaxCap}
    /\ mut = NoThread
    /\ pc = [t \in Threads |-> "idle"]
    /\ item = [t \in Threads |-> Nil]
    /\ timeout = [t \in Threads |-> 0]
    /\ interval = [t \in Threads |-> 0]
    /\ timer = [t \in Threads |-> "nil"]
    /\ ret = [t \in Threads |-> NoRet]
    /\ enq = <<>>
    /\ deq = <<>>
    /\ actual = <<>>

NextCapacity ==
    \/ SeqEnqueue(NextItem)
    \/ SeqDequeue
    \/ SeqLen

SpecCapacity == InitCapacity /\ [][NextCapacity]_vars

\* ------------------------------------------------------------ the tests
\* shouldHaveConcItems and shouldBlockUntilItems: NumProducers goroutines each
\* enqueue their own number once; thread Main collects the dequeued items in
\* `actual` and then reads Len().
Producers == 1..NumProducers
Main == NumProducers + 1
TestThreads == 1..(NumProducers + 1)

InitTest ==
    /\ q \in {NewQueue(c) : c \in 0..MaxCap}
    /\ twin = [q |-> q, ret |-> NoRet]
    /\ mut = NoThread
    /\ pc = [t \in TestThreads |-> "idle"]
    /\ item = [t \in TestThreads |-> Nil]
    /\ timeout = [t \in TestThreads |-> 0]
    /\ interval = [t \in TestThreads |-> 0]
    /\ timer = [t \in TestThreads |-> "nil"]
    /\ ret = [t \in TestThreads |-> NoRet]
    /\ enq = <<>>
    /\ deq = <<>>
    /\ actual = <<>>

\* go func(i int) { queue.Enqueue(i + 1) ... }(i)
ProducerStart(t) ==
    /\ ret[t].op = "none"
    /\ CallEnqueue(t, t)

\* wg.Done(), the goroutine ends
ProducerDone(t) ==
    /\ pc[t] = "idle" /\ ret[t].op = "Enqueue"
    /\ Goto(t, "done")
    /\ UNCHANGED <<q, mut, item, timeout, interval, timer, ret, enq, deq, twin, actual>>

\* wg.Wait() has returned; the next queue.Dequeue() of lines 94-96
MainDequeue ==
    /\ \A p \in Producers : pc[p] = "done"
    /\ ret[Main].op = "none" /\ Len(actual) < NumProducers
    /\ CallDequeue(Main)

\* the next queue.DequeueBlocking(0, 0) of lines 145-147
MainDequeueBlocking ==
    /\ ret[Main].op = "none" /\ Len(actual) < NumProducers
    /\ CallDequeueBlocking(Main, 0, 0)

\* actual = append(actual, <result>.(int)): the assertion panics on nil
Collect(t) ==
    /\ pc[t] = "idle" /\ ret[t].op \in {"Dequeue", "DequeueBlocking"}
    /\ IF ret[t].val = Nil
       THEN Goto(t, "panic") /\ UNCHANGED <<ret, actual>>
       ELSE /\ actual' = Append(actual, ret[t].val)
            /\ ret' = [ret EXCEPT ![t] = NoRet]
            /\ UNCHANGED pc
    /\ UNCHANGED <<q, mut, item, timeout, interval, timer, enq, deq, twin>>

\* queue.Len() in the final comparison
MainLen ==
    /\ ret[Main].op = "none" /\ Len(actual) = NumProducers
    /\ CallLen(Main)

NextProducers ==
    \/ \E t \in Producers :
        \/ ProducerStart(t)
        \/ EnqueueLock(t)
        \/ EnqueueBody(t)
        \/ ProducerDone(t)
    \/ MainDequeue
    \/ DequeueLock(Main)
    \/ DequeueBody(Main)
    \/ Collect(Main)
    \/ MainLen
    \/ LenLock(Main)
    \/ LenBody(Main)

SpecProducers == InitTest /\ [][NextProducers]_vars

NextBlocking ==
    \/ \E t \in Producers :
        \/ ProducerStart(t)
        \/ EnqueueLock(t)
        \/ EnqueueBody(t)
    \/ MainDequeueBlocking
    \/ DBLock(Main)
    \/ DBTimer(Main)
    \/ DBTest(Main)
    \/ DBSelect(Main)
    \/ DBRelock(Main)
    \/ DBDequeue(Main)
    \/ Collect(Main)
    \/ MainLen
    \/ LenLock(Main)
    \/ LenBody(Main)

\* the steps of Main that wait for nothing, and its Lock calls
MainRuns ==
    \/ MainDequeueBlocking
    \/ DBTimer(Main)
    \/ DBTest(Main)
    \/ DBSelect(Main)
    \/ DBDequeue(Main)
    \/ Collect(Main)
    \/ MainLen
    \/ LenBody(Main)
MainLocks == DBLock(Main) \/ DBRelock(Main) \/ LenLock(Main)

\* every goroutine keeps running, and a goroutine waiting in Lock gets the
\* mutex although another one keeps taking and releasing it
FairBlocking ==
    /\ \A t \in Producers :
        /\ WF_vars(ProducerStart(t))
        /\ SF_vars(EnqueueLock(t))
        /\ WF_vars(EnqueueBody(t))
    /\ WF_vars(MainRuns)
    /\ SF_vars(MainLocks)

SpecBlocking == InitTest /\ [][NextBlocking]_vars /\ FairBlocking

\* ------------------------------------------------ DequeueBlocking vs Dequeue
\* One caller and no concurrent operation. The caller enqueues on q and on
\* twin.q alike; on a non-empty queue it calls DequeueBlocking on q, statement
\* by statement, while twin.q gets one whole Dequeue call. The statements of
\* the poll cycle (lines 127-140) are not steps of this specification: C15
\* states that the call never gets to them.
DequeueTwin ==
    /\ pc[Caller] = "DB116" /\ twin.q = q
    /\ twin' = DequeueCall(twin.q)
    /\ UNCHANGED <<q, mut, pc, item, timeout, interval, timer, ret, enq, deq, actual>>

NextEquiv ==
    \/ SeqEnqueue(NextItem)
    \/ /\ q.len > 0
       /\ \E to \in Durations, iv \in Durations : CallDequeueBlocking(Caller, to, iv)
    \/ DequeueTwin
    \/ twin.q # q /\ DBLock(Caller)
    \/ DBTimer(Caller)
    \/ DBTest(Caller)
    \/ DBDequeue(Caller)
    \/ TimerFire(Caller)

SpecEquiv == Init /\ [][NextEquiv]_vars

\* ------------------------------------------------- producers and pollers
\* One thread calls Enqueue again and again; every other thread calls
\* DequeueBlocking, with any timeout and any interval, and polls whenever it
\* finds the queue empty.
Enqueuer == 1
Pollers == Threads \ {Enqueuer}

NextProgress ==
    \/ CallEnqueue(Enqueuer, NextItem)
    \/ EnqueueLock(Enqueuer)
    \/ EnqueueBody(Enqueuer)
    \/ \E t \in Pollers :
        \/ \E to \in Durations, iv \in Durations : CallDequeueBlocking(t, to, iv)
        \/ DBLock(t)
        \/ DBTimer(t)
        \/ DBTest(t)
        \/ DBSelect(t)
        \/ DBSleep(t)
        \/ DBRelock(t)
        \/ DBDequeue(t)
        \/ TimerFire(t)

\* the steps of a call in progress that wait for nothing, and its Lock calls
Proceeds(t) ==
    \/ EnqueueBody(t)
    \/ DBTimer(t)
    \/ DBTest(t)
    \/ DBSelect(t)
    \/ DBSleep(t)
    \/ DBDequeue(t)
Acquires(t) == EnqueueLock(t) \/ DBLock(t) \/ DBRelock(t)

\* a call in progress keeps running, a thread waiting in Lock gets the mutex
\* although a poller keeps taking and releasing it (sync.Mutex hands the mutex
\* to a waiter that has waited long), and a started timer fires
FairProgress ==
    \A t \in Threads :
        /\ WF_vars(Proceeds(t))
        /\ SF_vars(Acquires(t))
        /\ WF_vars(TimerFire(t))

SpecProgress == Init /\ [][NextProgress]_vars /\ FairProgress

\* ------------------------------------------------------------ properties
IsPrefix(a, b) == Len(a) <= Len(b) /\ SubSeq(b, 1, Len(a)) = a
DequeueOps == {"Dequeue", "DequeueBlocking"}
\* thread t holds an item it got from a dequeue
GotItem(t) == ret[t].op \in DequeueOps /\ ret[t].val # Nil

\* C1: FIFO over any history. In every reachable state the sequence of items
\* returned by the successful Dequeue and DequeueBlocking calls, in the order of
\* their critical sections, is a prefix of the sequence of items enqueued.
C1_FifoPrefix == IsPrefix(deq, enq)

\* a dequeue has succeeded while chunk 1 is read mid-drain and the write index
\* has been redirected back to a refilled chunk 0
C1_Witness ==
    /\ \E t \in DOMAIN ret : GotItem(t)
    /\ q.ry = 1 /\ q.rx > 0 /\ q.w = 0
    /\ Len(q.items) = 2 /\ Len(At(q.items, 0).e) > 0

\* C2: length accounting. q.len, which is what Len() returns from its critical
\* section, equals the number of completed Enqueue critical sections minus the
\* number of dequeues that returned an item; it is never negative, and a
\* dequeue that returns nil does not change it.
C2_LengthAccounting ==
    /\ q.len = Len(enq) - Len(deq)
    /\ [][/\ q'.len = Len(enq') - Len(deq')
          /\ q'.len >= 0
          /\ \A t \in DOMAIN pc :
               /\ (pc[t] = "Len156" /\ pc'[t] = "idle")
                    => ret'[t] = [op |-> "Len", val |-> Len(enq) - Len(deq)]
               /\ (pc[t] \in {"Dequeue99", "DB143"} /\ pc'[t] = "idle"
                   /\ ret'[t].val = Nil) => q'.len = q.len]_vars

\* Len() has returned 2 after another thread's dequeue took an item
C2_Witness ==
    \E t, u \in DOMAIN ret :
        /\ ret[t] = [op |-> "Len", val |-> 2]
        /\ GotItem(u)

\* C4: empty contract. A Dequeue whose critical section runs with q.len = 0
\* returns nil and leaves every field of the queue unchanged.
C4_EmptyDequeue ==
    [][\A t \in DOMAIN pc :
         (pc[t] = "Dequeue99" /\ pc'[t] # "Dequeue99" /\ q.len = 0)
           => /\ pc'[t] = "idle"
              /\ ret'[t] = [op |-> "Dequeue", val |-> Nil]
              /\ q' = q]_vars

\* Dequeue returned nil on a queue that another thread had drained back to 0
C4_Witness ==
    \E t, u \in DOMAIN ret :
        /\ ret[t] = [op |-> "Dequeue", val |-> Nil]
        /\ GotItem(u)
        /\ q.len = 0

\* C7: return to pristine state. Whenever q.len = 0 the queue equals a newly
\* created queue of the same Capacity: no chunks, rx = ry = w = 0.
C7_Pristine == q.len = 0 => q = NewQueue(q.Capacity)

\* the queue is back at its creation state after items went through it
C7_Witness ==
    /\ q = NewQueue(q.Capacity)
    /\ \A t \in DOMAIN ret : GotItem(t)

\* the labels at which a thread is between Lock and Unlock
Critical == {"Enqueue80", "Dequeue99", "Len156", "DB118", "DB124", "DB143"}
\* the labels whose statement reads or writes items, len, rx, ry or w
FieldAccess == {"Enqueue80", "Dequeue99", "Len156", "DB124", "DB143"}

\* C8: mutual exclusion. At most one thread is inside a critical section, and
\* a thread about to read or write a field of the queue (the loop test of
\* DequeueBlocking included) holds the mutex.
C8_MutualExclusion ==
    /\ Cardinality({t \in DOMAIN pc : pc[t] \in Critical}) <= 1
    /\ \A t \in DOMAIN pc : pc[t] \in Critical \cup FieldAccess => mut = t

\* a polling DequeueBlocking is back at its loop test, holding the mutex it
\* took again at line 140, while another thread waits in Enqueue for it
C8_Witness ==
    \E t, u \in DOMAIN pc :
        /\ pc[t] = "DB124" /\ timer[t] = "running" /\ mut = t
        /\ pc[u] = "Enqueue78"

\* C10: a dequeue fails only on an empty queue. Whenever q.len > 0 the chunk
\* at q.ry exists and is non-empty, so q.dequeue() succeeds; in particular it
\* succeeds for a DequeueBlocking that has left its loop.
C10_ReadChunkNonEmpty ==
    /\ q.len > 0 =>
         /\ q.ry < Len(q.items)
         /\ Len(At(q.items, q.ry).e) > 0
         /\ ~dequeuePanics(q)
         /\ dequeue(q).ok
    /\ \A t \in DOMAIN pc : pc[t] = "DB143" => q.len > 0 /\ dequeue(q).ok

\* a DequeueBlocking has left its loop with the read chunk at index 1
C10_Witness ==
    \E t \in DOMAIN pc : pc[t] = "DB143" /\ q.ry = 1 /\ q.rx > 0

\* C9: Capacity is a soft hint. Whatever the Capacity (0 included), Enqueue
\* succeeds in every reachable state and adds one to the length, the length and
\* a chunk's item count are not limited by Capacity, and two queues given the
\* same sequence of Enqueue, Dequeue and Len calls return the same results
\* whatever their two Capacity values.
C9_CapacitySoftHint ==
    /\ twin.ret = ret[Caller]
    /\ \A e \in Items :
         /\ EnqueueCall(q, e).ret.op = "Enqueue"
         /\ EnqueueCall(q, e).q.len = q.len + 1
         /\ EnqueueCall(twin.q, e).ret.op = "Enqueue"

\* a queue of Capacity 1 holds a chunk of more than one item while a queue of
\* Capacity 0 has returned the same item to the same Dequeue
C9_Witness ==
    /\ q.Capacity = 1 /\ twin.q.Capacity = 0
    /\ q.len > q.Capacity
    /\ \E i \in 1..Len(q.items) : Len(q.items[i].e) > q.Capacity
    /\ ret[Caller].op = "Dequeue" /\ ret[Caller].val # Nil

\* the test has compared `actual` with what the producers enqueued
TestDone ==
    /\ pc[Main] = "idle" /\ ret[Main].op = "Len"
    /\ Len(actual) = NumProducers

\* C3: no loss, no duplication under concurrent producers. After NumProducers
\* threads have each completed one Enqueue of a distinct item, in any
\* interleaving, NumProducers sequential Dequeue calls return those items,
\* each once and none nil, and Len() then returns 0; the run ends nowhere else.
C3_NoLossNoDuplication ==
    /\ pc[Main] # "panic"
    /\ TestDone => Range(actual) = Producers /\ ret[Main].val = 0
    /\ TestDone \/ ENABLED NextProducers

\* the test is over and the items came out in another order than the
\* producers' numbers
C3_Witness == TestDone /\ actual[1] = NumProducers /\ q.len = 0

\* C5: blocking wakes on enqueue. With the producers enqueueing concurrently,
\* a single consumer's NumProducers calls of DequeueBlocking(0, 0), the first
\* of them started on an empty queue, all return eventually, none returns nil,
\* together they return exactly the enqueued items, and Len() is then 0.
C5_BlockingWakes ==
    /\ [](pc[Main] # "panic")
    /\ <>(TestDone /\ Range(actual) = Producers /\ ret[Main].val = 0)

\* the consumer found the queue empty and released the mutex; an item has
\* been enqueued since, and the consumer is about to lock and test again
C5_Witness ==
    /\ pc[Main] = "DB140" /\ timeout[Main] = 0
    /\ actual = <<>>
    /\ q.len = 1

DBLabels == {"DB116", "DB118", "DB124", "DB127", "DB137", "DB140", "DB143"}

\* C6: blocking respects timeout. On a queue that never receives an item, a
\* DequeueBlocking call with timeout > 0, whatever its interval, eventually
\* returns nil, and no DequeueBlocking call returns nil unless its deadline
\* timer has fired.
C6_RespectsTimeout ==
    /\ \A t \in Threads :
         (pc[t] = "DB116" /\ timeout[t] > 0)
           ~> (pc[t] = "idle" /\ ret[t] = [op |-> "DequeueBlocking", val |-> Nil])
    /\ [][\A t \in Threads :
            (pc[t] \in DBLabels /\ pc'[t] = "idle" /\ ret'[t].val = Nil)
              => timer[t] = "fired"]_vars

\* a DequeueBlocking call has returned nil
C6_Witness ==
    \E t \in Threads :
        pc[t] = "idle" /\ ret[t] = [op |-> "DequeueBlocking", val |-> Nil]

\* C11: lock span of DequeueBlocking. The calling thread does not hold the
\* mutex while it checks the deadline (line 127), sleeps (line 137) or waits
\* to lock again (line 140); it holds it at every test of q.len (line 124) and
\* at the dequeue (line 143), so each Unlock releases a mutex the thread
\* holds; and after either return the thread does not hold the mutex.
C11_LockSpan ==
    \A t \in DOMAIN pc :
        /\ pc[t] \in {"DB116", "DB127", "DB137", "DB140"} => mut # t
        /\ pc[t] \in {"DB118", "DB124", "DB143"} => mut = t
        /\ pc[t] = "idle" => mut # t

\* a DequeueBlocking whose deadline has passed sleeps between two polls,
\* without the mutex, while another thread is inside Enqueue's critical section
C11_Witness ==
    \E t, u \in DOMAIN pc :
        /\ pc[t] = "DB137" /\ timer[t] = "fired"
        /\ pc[u] = "Enqueue80" /\ mut = u

\* the elements of the read chunk from the read offset on (empty when there
\* is no chunk)
ReadRest ==
    IF Len(q.items) = 0 THEN <<>>
    ELSE SubSeq(At(q.items, q.ry).e, q.rx + 1, Len(At(q.items, q.ry).e))

RECURSIVE OtherChunks(_)
\* the elements of the chunks at indices i.. other than the read chunk, in
\* index order
OtherChunks(i) ==
    IF i >= Len(q.items) THEN <<>>
    ELSE (IF i = q.ry THEN <<>> ELSE At(q.items, i).e) \o OtherChunks(i + 1)

\* C16: the write chunk is never the chunk being drained. Whenever q.rx > 0
\* the write index differs from the read index, so the append of line 83
\* never adds to a chunk from which some but not all items were dequeued.
C16_WriteAvoidsDraining ==
    /\ q.rx > 0 => q.w # q.ry
    /\ \A t \in DOMAIN pc :
         (pc[t] = "Enqueue80" /\ q.rx > 0 /\ ~EnqueuePanics(q))
           => EnqueueCS(q, item[t]).items[q.ry + 1] = At(q.items, q.ry)

\* the read chunk is mid-drain and items enqueued meanwhile sit in the other
\* chunk
C16_Witness ==
    /\ q.rx > 0 /\ q.w # q.ry
    /\ Len(q.items) = 2 /\ Len(At(q.items, q.w).e) = 2

\* C17: contents accounting. q.len is the number of elements of the read chunk
\* from q.rx on plus the sizes of all other chunks; those elements followed by
\* the other chunks' elements are exactly the items enqueued and not yet
\* dequeued, in enqueue order: another chunk holds no dequeued item and only
\* items enqueued after every item left in the read chunk.
C17_ContentsAccounting ==
    /\ q.len = Len(ReadRest) + Len(OtherChunks(0))
    /\ deq = <<>> => ReadRest \o OtherChunks(0) = enq

\* the read chunk is chunk 1, partly dequeued, and chunk 0 holds newer items
C17_Witness ==
    /\ q.ry = 1 /\ q.rx = 1
    /\ Len(ReadRest) > 0 /\ Len(OtherChunks(0)) > 0
    /\ deq = <<>>

\* C18: at most two chunks. q.items never holds more than 2 chunks, and q.ry
\* and q.w are always 0 or 1.
C18_TwoChunks ==
    /\ Len(q.items) <= 2
    /\ q.ry \in {0, 1}
    /\ q.w \in {0, 1}

\* the queue has grown to MaxItems with the read chunk drained once and both
\* roles exchanged: chunk 0 is written again while chunk 1 is read
C18_Witness ==
    /\ Len(q.items) = 2 /\ q.ry = 1 /\ q.w = 0
    /\ Len(At(q.items, 0).e) > 0
    /\ q.len = MaxItems

\* C19: no out-of-range access. Whenever q.items is non-empty, q.ry indexes
\* one of its chunks, q.w is at most its length, and q.rx indexes an element
\* of the read chunk when that chunk is non-empty; so q.items[q.ry],
\* q.items[q.ry][q.rx] and the q.items[q.w] of line 83 never panic.
C19_IndicesInRange ==
    /\ Len(q.items) # 0 =>
         /\ 0 <= q.ry /\ q.ry < Len(q.items)
         /\ 0 <= q.w /\ q.w <= Len(q.items)
         /\ Len(At(q.items, q.ry).e) # 0 =>
              0 <= q.rx /\ q.rx < Len(At(q.items, q.ry).e)
    /\ ~EnqueuePanics(q)
    /\ ~dequeuePanics(q)
    /\ \A t \in DOMAIN pc : pc[t] # "panic"

\* an Enqueue is about to index q.items[q.w] with q.w the last chunk while
\* q.rx indexes the last element of the read chunk
C19_Witness ==
    /\ \E t \in DOMAIN pc : pc[t] = "Enqueue80"
    /\ Len(q.items) = 2 /\ q.w = 1 /\ q.ry = 0
    /\ q.rx > 0 /\ q.rx = Len(At(q.items, 0).e) - 1

\* C13: with timeout = 0 DequeueBlocking never returns nil. In every
\* interleaving, other Dequeue and DequeueBlocking calls included, a
\* DequeueBlocking called with timeout 0 returns only from line 146, and what
\* it returns is the oldest item enqueued and not yet dequeued.
C13_NoNilWithoutTimeout ==
    [][\A t \in DOMAIN pc :
         (pc[t] \in DBLabels /\ pc'[t] \notin DBLabels /\ timeout[t] = 0)
           => /\ pc[t] = "DB143" /\ pc'[t] = "idle"
              /\ ret'[t].op = "DequeueBlocking"
              /\ ret'[t].val # Nil
              /\ enq # <<>> /\ ret'[t].val = Head(enq)]_vars

\* a DequeueBlocking with timeout 0 that has polled an empty queue is back at
\* its loop test after the other thread's dequeue emptied the queue again
C13_Witness ==
    \E t, u \in DOMAIN pc :
        /\ pc[t] = "DB124" /\ timeout[t] = 0 /\ interval[t] = 1
        /\ u # t /\ GotItem(u) /\ q.len = 0

\* a DequeueBlocking call of thread t returns nil in this step
DBReturnsNil(t) ==
    /\ pc[t] \in DBLabels /\ pc'[t] = "idle"
    /\ ret'[t] = [op |-> "DequeueBlocking", val |-> Nil]

\* C14 as stated: whenever a DequeueBlocking call with timeout > 0 returns
\* nil, q.len is 0 at the moment it returns.
C14_EmptyAtReturn ==
    [][\A t \in DOMAIN pc : (DBReturnsNil(t) /\ timeout[t] > 0) => q'.len = 0]_vars

\* C14: a nil from DequeueBlocking means the queue was empty at the call's
\* last poll. A DequeueBlocking call with timeout > 0 returns nil only from
\* line 130, with its timer fired, after a loop test (line 124) that found
\* q.len = 0 under the mutex and released it (line 125); q.len is not read
\* again before the return.
C14_EmptyAtLastPoll ==
    [][\A t \in DOMAIN pc :
         /\ (DBReturnsNil(t) /\ timeout[t] > 0)
              => pc[t] = "DB127" /\ timer[t] = "fired" /\ mut # t /\ q' = q
         /\ (pc[t] = "DB124" /\ pc'[t] = "DB127") => q.len = 0 /\ q' = q
         /\ (pc[t] # "DB127" /\ pc'[t] = "DB127") => pc[t] = "DB124"]_vars

\* a DequeueBlocking whose last poll found the queue empty is about to return
\* nil at line 130 although an item has been enqueued since
C14_Witness ==
    \E t \in DOMAIN pc :
        /\ pc[t] = "DB127" /\ timer[t] = "fired"
        /\ q.len > 0 /\ mut = NoThread

\* C15: DequeueBlocking on a non-empty queue equals Dequeue. Called with
\* q.len > 0 and no concurrent operation, DequeueBlocking(timeout, interval),
\* for any timeout and interval, returns the item Dequeue returns from the same
\* state and leaves the same queue (chunks, len, rx, ry, w) with the mutex
\* released; it never gets to the deadline check, the sleep or the second Lock.
C15_BlockingEqualsDequeue ==
    /\ pc[Caller] \notin {"DB127", "DB137", "DB140", "panic"}
    /\ (pc[Caller] = "idle" /\ ret[Caller].op = "DequeueBlocking") =>
         /\ twin.ret.op = "Dequeue"
         /\ ret[Caller].val = twin.ret.val
         /\ ret[Caller].val # Nil
         /\ q = twin.q
         /\ mut = NoThread

\* DequeueBlocking has returned the item Dequeue returned, from a queue of two
\* chunks whose read chunk was mid-drain, with its deadline already passed
\* when it tested q.len
C15_Witness ==
    /\ pc[Caller] = "idle" /\ ret[Caller].op = "DequeueBlocking"
    /\ twin.ret = [op |-> "Dequeue", val |-> ret[Caller].val]
    /\ Len(q.items) = 2 /\ q.ry = 1 /\ q.rx > 0 /\ q.w = 0

\* some thread is inside a call
InCall == \E t \in DOMAIN pc : pc[t] \notin {"idle", "panic"}
\* some thread inside a call can take its next step
CanStep == \E t \in DOMAIN pc : ENABLED (Proceeds(t) \/ Acquires(t))

\* C12: producers make progress while a consumer waits. With DequeueBlocking
\* calls polling (any timeout, any interval, 0 included), an Enqueue call
\* that has started gets the mutex and then returns; and in no reachable state
\* are all the threads that are inside a call blocked.
C12_ProducersProgress ==
    /\ [](InCall => CanStep)
    /\ (pc[Enqueuer] = "Enqueue78") ~> (pc[Enqueuer] = "Enqueue80" /\ mut = Enqueuer)
    /\ (pc[Enqueuer] = "Enqueue80")
         ~> (pc[Enqueuer] = "idle" /\ ret[Enqueuer].op = "Enqueue")

\* an Enqueue waits for the mutex that a DequeueBlocking(0, 0), back from a
\* poll of the empty queue, holds at its loop test
C12_Witness ==
    \E u \in Pollers :
        /\ pc[Enqueuer] = "Enqueue78"
        /\ pc[u] = "DB124" /\ mut = u /\ timeout[u] = 0 /\ interval[u] = 0
        /\ q.len = 0

====
